---- MODULE Spec2Model ----
(***************************************************************************)
(* BasicEventEmitter (src/src/index.ts): the subscription registry, the    *)
(* dispatch loop, one-time events and their replay, the readiness gate,    *)
(* pipes between two emitters and the handles.  Every public method        *)
(* is one action; a method's whole synchronous execution, the listeners it *)
(* runs and the calls those listeners make included, is computed by the    *)
(* lower-case operators below, which follow the method bodies line by line *)
(* over a record w holding the emitters' fields.                           *)
(***************************************************************************)
EXTENDS Integers, Sequences, FiniteSets, TLC

VARIABLES
    subs,       \* this[_subscriptions] of each emitter: a sequence of entries
    oneTime,    \* this[_oneTimeEvents] of each emitter: a map event -> arguments
    ready,      \* this._ready of each emitter
    promises,   \* the promises created by once() and ready(), in creation order
    last,       \* the last call made from outside any listener, with its outcome
    log,        \* the callbacks run during that call, in order
    microtasks, \* the continuations of async functions waiting for their turn
    handles     \* the handles of on()/pipe() the caller kept, in creation order

vars == <<subs, oneTime, ready, promises, last, log, microtasks, handles>>

(* ------------------------------ bounds -------------------------------- *)

\* Top-level on()/once() are offered while the registry is shorter than this.
MaxSubs == 3
\* Top-level once() is offered while fewer promises than this were created.
MaxPromises == 2
\* Depth of nested listener calls at which the engine's call stack overflows.
MaxDepth == 3
\* Top-level ready() is offered while the two promises it may create keep the
\* number of promises within this.
MaxReadyPromises == 4
\* Top-level calls that keep the handle they return are offered while fewer
\* handles than this are kept.
MaxHandles == 2

(* ------------------------------ values -------------------------------- *)

Emitters == {"a", "b"}
InternalReady == "internal_ready"
UserEvents == {"E", "F"}
Events == UserEvents \cup {InternalReady}
Args == {<<"x">>, <<"y">>}
Undefined == "undefined"

\* The listener functions callers pass: two that only return a value and one
\* that raises.
Fns == {"cb", "cb2", "thrower"}

\* The (event, listener) pairs the calls below are made with; Undefined
\* stands for an omitted callback.
OnInputs == {<<"E", "cb">>, <<"E", "cb2">>, <<"E", "thrower">>, <<"F", "cb">>}
OnceInputs == {<<"E", "cb">>, <<"E", "thrower">>}
OffInputs == {<<"E", "cb">>, <<"E", "cb2">>, <<"E", Undefined>>, <<"F", Undefined>>}
OffOnceInputs == {<<"E", "cb">>, <<"E", Undefined>>}
EmitInputs == {<<"E", <<"x">> >>, <<"E", <<"y">> >>, <<"F", <<"x">> >>}
EmitOnceInputs == {<<"E", <<"x">> >>, <<"E", <<"y">> >>}

\* What a listener function returns when it returns.
Ret(fn) == CASE fn = "cb" -> "r1" [] fn = "cb2" -> "r2" [] OTHER -> Undefined

\* A function value held by the registry.  kind  "user": a function passed to
\* on();  "ourCallback": the closure once() builds around fn and the resolve
\* of promise p;  "readySetter": the constructor's listener of emitter owner.
\* "ourCallbackAsync": the closure once() builds around the async function
\* ready() passes it, which awaits fn and resolves promise q of ready();
\* "pipe": the q-th closure pipe() made, which emits on emitter owner;
\* "ourCallbackPipe": the closure once() builds around the function
\* pipeOnce() passes it, which calls emitOnce on emitter owner.
Callback(kind, fn, p, owner) ==
    [kind |-> kind, fn |-> fn, p |-> p, owner |-> owner, q |-> 0]
UserCb(fn) == Callback("user", fn, 0, "none")
OurCallback(fn, p) == Callback("ourCallback", fn, p, "none")
ReadySetter(em) == Callback("readySetter", Undefined, 0, em)
\* The callback parameter of off()/offOnce() when it is omitted.
NoCallback == Callback("undefined", Undefined, 0, "none")
OurCallbackAsync(fn, p, q) == [Callback("ourCallbackAsync", fn, p, "none") EXCEPT !.q = q]
PipeCallback(target, q) == [Callback("pipe", Undefined, 0, target) EXCEPT !.q = q]
OurCallbackPipe(target, p) == Callback("ourCallbackPipe", Undefined, p, target)

Subscription(event, callback, once) == [event |-> event, callback |-> callback, once |-> once]

\* The listener functions that call the emitter they are subscribed on:
\* "stopper" stops the handle on("E", stopper) returned, which is
\* off("E", stopper); "emitsF" emits the event F; "reemitter" emits the
\* event E it listens to; "offOncer" cancels the once-subscriptions of E;
\* "sealer", when called with "x", seals E with "y":
\* (v) => { if (v === "x") emitter.emitOnce("E", "y") };
\* "adder" subscribes cb to E with on().
ReentrantFns == {"stopper", "emitsF", "reemitter", "offOncer", "sealer", "adder"}

\* What a listener function does when called: the calls it makes, in order.
Body(fn) ==
    CASE fn = "thrower" -> <<[op |-> "throw"]>>
      [] fn = "stopper" ->
           <<[op |-> "off", em |-> "a", event |-> "E", callback |-> UserCb("stopper")]>>
      [] fn = "emitsF" -> <<[op |-> "emit", em |-> "a", event |-> "F", arg |-> <<"x">>]>>
      [] fn = "reemitter" -> <<[op |-> "emit", em |-> "a", event |-> "E", arg |-> <<"y">>]>>
      [] fn = "offOncer" ->
           <<[op |-> "offOnce", em |-> "a", event |-> "E", callback |-> NoCallback]>>
      [] fn = "sealer" -> <<[op |-> "emitOnce", em |-> "a", event |-> "E", arg |-> <<"y">>]>>
      [] fn = "adder" ->
           <<[op |-> "on", em |-> "a", event |-> "E", callback |-> UserCb("cb")]>>
      [] OTHER -> << >>

\* The calls a listener function makes when it is called with arg.
BodyOn(fn, arg) == IF fn = "sealer" /\ arg # <<"x">> THEN << >> ELSE Body(fn)

(* ------------------------- Map and Array helpers ----------------------- *)

has(m, event) == event \in DOMAIN m
get(m, event) == m[event]
mapSet(m, event, arg) == [e \in (DOMAIN m) \cup {event} |-> IF e = event THEN arg ELSE m[e]]
EmptyMap == [e \in {} |-> << >>]

\* Array.prototype.splice(i, 1), i counted from 1: nothing to remove past the end.
splice(seq, i) ==
    IF i <= Len(seq) THEN SubSeq(seq, 1, i - 1) \o SubSeq(seq, i + 1, Len(seq)) ELSE seq

(* --------------------------- the method bodies ------------------------- *)

RECURSIVE emitLoop(_, _, _, _, _, _)
RECURSIVE runCallback(_, _, _, _, _)
RECURSIVE runBody(_, _, _, _)
RECURSIVE exec(_, _, _)

\* resolve(v) of promise p: only the first call settles it.
resolve(w, p, v) ==
    IF w.promises[p] = "pending" THEN [w EXCEPT !.promises[p] = v] ELSE w

\* off() with the identity test the wrong way round (=== for !==).
offKeepsSameCallback(s, event, callback) ==
    s.event # event \/ (callback # NoCallback /\ s.callback = callback)

\* off() that does not look at the callback.
offKeepsOtherEvents(s, event, callback) ==
    s.event # event

\* off() that leaves once entries alone when no callback is given.
offKeepsOnceEntries(s, event, callback) ==
    s.event # event \/ (callback # NoCallback /\ s.callback # callback)
       \/ (callback = NoCallback /\ s.once)

\* The filter predicate of off(): the entries that stay.
offKeeps(s, event, callback) ==
    s.event # event \/ (callback # NoCallback /\ s.callback # callback)

\* off() that filters the registry and drops the result.
offDropsFilterResult(w, em, event, callback) == w

off(w, em, event, callback) ==
    [w EXCEPT !.subs[em] = SelectSeq(@, LAMBDA s : offKeeps(s, event, callback))]

\* offOnce() without the test of once: it removes what off() removes.
offOnceRemovesOnEntries(s, event, callback) ==
    s.event # event \/ (callback # NoCallback /\ s.callback # callback)

\* offOnce() that does not look at the callback.
offOnceIgnoresCallback(s, event, callback) ==
    s.event # event \/ ~s.once

\* The filter predicate of offOnce(): the entries that stay.
offOnceKeeps(s, event, callback) ==
    s.event # event \/ (callback # NoCallback /\ s.callback # callback) \/ ~s.once

offOnce(w, em, event, callback) ==
    [w EXCEPT !.subs[em] = SelectSeq(@, LAMBDA s : offOnceKeeps(s, event, callback))]

\* clearEvents() that empties the registry only.
clearEventsKeepsRecords(w, em) ==
    [w EXCEPT !.subs[em] = << >>]

\* clearEvents() that resets the field _ready as well.
clearEventsResetsReady(w, em) ==
    [w EXCEPT !.subs[em] = << >>, !.oneTime[em] = EmptyMap, !.ready[em] = FALSE]

clearEvents(w, em) ==
    [w EXCEPT !.subs[em] = << >>, !.oneTime[em] = EmptyMap]

\* on() without the replay branch: the listener is always queued.
onAlwaysSubscribes(w, em, event, callback, d) ==
    [w EXCEPT !.subs[em] = Append(@, Subscription(event, callback, FALSE))]

\* on() that does not queue a listener the registry already holds for the
\* event.
onDeduplicates(w, em, event, callback, d) ==
    IF has(w.oneTime[em], event)
    THEN runCallback(w, callback, get(w.oneTime[em], event), [em |-> em, event |-> event], d + 1)
    ELSE IF \E k \in 1..Len(w.subs[em]) :
               w.subs[em][k].event = event /\ w.subs[em][k].callback = callback
         THEN w
         ELSE [w EXCEPT !.subs[em] = Append(@, Subscription(event, callback, FALSE))]

\* on() that queues its entry as once() does, with once: true.
onQueuesOnceEntry(w, em, event, callback, d) ==
    IF has(w.oneTime[em], event)
    THEN runCallback(w, callback, get(w.oneTime[em], event), [em |-> em, event |-> event], d + 1)
    ELSE [w EXCEPT !.subs[em] = Append(@, Subscription(event, callback, TRUE))]

on(w, em, event, callback, d) ==
    IF has(w.oneTime[em], event)
    THEN runCallback(w, callback, get(w.oneTime[em], event), [em |-> em, event |-> event], d + 1)
    ELSE [w EXCEPT !.subs[em] = Append(@, Subscription(event, callback, FALSE))]

\* once() without the replay branch: the closure is always queued.
onceAlwaysSubscribes(w0, em, event, ourCallback, p, d) ==
    [w0 EXCEPT !.subs[em] = Append(@, Subscription(event, ourCallback, TRUE))]

\* once(): the promise executor runs inside the call; what it raises rejects
\* the promise (if resolve has not settled it yet) and never reaches the caller.
onceExecutor(w0, em, event, ourCallback, p, d) ==
    IF has(w0.oneTime[em], event)
    THEN LET w1 == runCallback(w0, ourCallback, get(w0.oneTime[em], event),
                               [em |-> em, event |-> event], d + 1)
         IN  IF w1.err = "none" THEN w1
             ELSE [resolve(w1, p, "rejected") EXCEPT !.err = "none"]
    ELSE [w0 EXCEPT !.subs[em] = Append(@, Subscription(event, ourCallback, TRUE))]

once(w, em, event, fn, d) ==
    LET p == Len(w.promises) + 1
        w0 == [w EXCEPT !.promises = Append(@, "pending")]
    IN  onceExecutor(w0, em, event, OurCallback(fn, p), p, d)

\* The continuation of an async function after its await: it waits for its
\* turn, and then settles promise q with value.
enqueue(w, em, q, value) ==
    [w EXCEPT !.microtasks = Append(@, [em |-> em, p |-> q, value |-> value])]

\* The async arrow function ready() passes to once(): it calls fn at once and
\* resolves promise q of ready() after the await.  What fn raises rejects the
\* arrow function's own promise, which nobody holds, and q stays pending.
readyArrow(w, em, fn, q, d) ==
    IF fn = Undefined THEN enqueue(w, em, q, Undefined)
    ELSE LET w1 == runBody(w, Body(fn), 1, d) IN
         IF w1.err # "none" THEN [w1 EXCEPT !.err = "none"]
         ELSE enqueue(w1, em, q, Ret(fn))

\* ready() that waits for the next internal_ready also when the emitter is
\* ready already.
readyAlwaysWaits(w, em, fn, d) ==
    LET q == Len(w.promises) + 1
        p == q + 1
        w0 == [w EXCEPT !.promises = Append(Append(@, "pending"), "pending")]
    IN  onceExecutor(w0, em, InternalReady, OurCallbackAsync(fn, p, q), p, d)

\* ready() that subscribes its function with on() instead of once().
readySubscribesWithOn(w, em, fn, d) ==
    LET q == Len(w.promises) + 1
        w0 == [w EXCEPT !.promises = Append(@, "pending")]
    IN  IF w0.ready[em]
        THEN IF fn = Undefined THEN enqueue(w0, em, q, Undefined)
             ELSE LET w1 == runBody([w0 EXCEPT !.log = Append(@, [em |-> em, event |-> "ready",
                                         callback |-> UserCb(fn), arg |-> << >>])],
                                    Body(fn), 1, d + 1)
                  IN  IF w1.err # "none" THEN [resolve(w1, q, "rejected") EXCEPT !.err = "none"]
                      ELSE enqueue(w1, em, q, Ret(fn))
        ELSE on([w0 EXCEPT !.promises = Append(@, "pending")], em, InternalReady,
                OurCallbackAsync(fn, q + 1, q), d)

\* ready() (the field _ready holds the name ready here): an async function,
\* so it runs inside the call up to its first
\* await and what it raises rejects its promise q.  When the emitter is ready
\* fn is called at once and q is settled after the await; otherwise the
\* executor of q subscribes the arrow function with once(), which creates
\* its own promise p.
readyCall(w, em, fn, d) ==
    LET q == Len(w.promises) + 1
        w0 == [w EXCEPT !.promises = Append(@, "pending")]
    IN  IF w0.ready[em]
        THEN IF fn = Undefined THEN enqueue(w0, em, q, Undefined)
             ELSE LET w1 == runBody([w0 EXCEPT !.log = Append(@, [em |-> em, event |-> "ready",
                                         callback |-> UserCb(fn), arg |-> << >>])],
                                    Body(fn), 1, d + 1)
                  IN  IF w1.err # "none" THEN [resolve(w1, q, "rejected") EXCEPT !.err = "none"]
                      ELSE enqueue(w1, em, q, Ret(fn))
        ELSE LET p == q + 1
                 w1 == [w0 EXCEPT !.promises = Append(@, "pending")]
             IN  onceExecutor(w1, em, InternalReady, OurCallbackAsync(fn, p, q), p, d)

\* emit() without the test for a permanent record.
emitNoSealCheck(w, em, event, arg, d) ==
    emitLoop(w, em, event, arg, 1, d)

emit(w, em, event, arg, d) ==
    IF has(w.oneTime[em], event)
    THEN [w EXCEPT !.err = "sealed"]
    ELSE emitLoop(w, em, event, arg, 1, d)

\* The loop of emit() without the i-- after the splice: the entry that moved
\* into the place of the removed one is passed over.
emitLoopNoDecrement(w, em, event, arg, i, d) ==
    IF i > Len(w.subs[em]) THEN w
    ELSE LET s == w.subs[em][i] IN
         IF s.event # event THEN emitLoop(w, em, event, arg, i + 1, d)
         ELSE LET w1 == runCallback(w, s.callback, arg, [em |-> em, event |-> event], d + 1) IN
              IF w1.err # "none" THEN w1
              ELSE IF s.once
                   THEN emitLoop([w1 EXCEPT !.subs[em] = splice(@, i)], em, event, arg, i + 1, d)
                   ELSE emitLoop(w1, em, event, arg, i + 1, d)

\* The loop of emit() without the splice: a once entry stays registered.
emitLoopKeepsOnce(w, em, event, arg, i, d) ==
    IF i > Len(w.subs[em]) THEN w
    ELSE LET s == w.subs[em][i] IN
         IF s.event # event THEN emitLoop(w, em, event, arg, i + 1, d)
         ELSE LET w1 == runCallback(w, s.callback, arg, [em |-> em, event |-> event], d + 1) IN
              IF w1.err # "none" THEN w1
              ELSE emitLoop(w1, em, event, arg, i + 1, d)

\* The loop of emit() without the test of the entry's event: every entry of
\* the registry is run.
emitLoopRunsEveryEntry(w, em, event, arg, i, d) ==
    IF i > Len(w.subs[em]) THEN w
    ELSE LET s == w.subs[em][i] IN
         LET w1 == runCallback(w, s.callback, arg, [em |-> em, event |-> event], d + 1) IN
         IF w1.err # "none" THEN w1
         ELSE IF s.once
              THEN emitLoop([w1 EXCEPT !.subs[em] = splice(@, i)], em, event, arg, i, d)
              ELSE emitLoop(w1, em, event, arg, i + 1, d)

\* The loop of emit() that removes a once entry also when its callback
\* raised.
emitLoopSplicesRaiser(w, em, event, arg, i, d) ==
    IF i > Len(w.subs[em]) THEN w
    ELSE LET s == w.subs[em][i] IN
         IF s.event # event THEN emitLoop(w, em, event, arg, i + 1, d)
         ELSE LET w1 == runCallback(w, s.callback, arg, [em |-> em, event |-> event], d + 1) IN
              IF w1.err # "none"
              THEN IF s.once THEN [w1 EXCEPT !.subs[em] = splice(@, i)] ELSE w1
              ELSE IF s.once
                   THEN emitLoop([w1 EXCEPT !.subs[em] = splice(@, i)], em, event, arg, i, d)
                   ELSE emitLoop(w1, em, event, arg, i + 1, d)

\* The for loop of emit(), from index i (counted from 1).  An error raised by
\* a listener leaves the loop at once.  After a once entry has run, splice
\* removes whatever stands at index i of the registry as it is then, and the
\* loop goes on at the same index.
emitLoop(w, em, event, arg, i, d) ==
    IF i > Len(w.subs[em]) THEN w
    ELSE LET s == w.subs[em][i] IN
         IF s.event # event THEN emitLoop(w, em, event, arg, i + 1, d)
         ELSE LET w1 == runCallback(w, s.callback, arg, [em |-> em, event |-> event], d + 1) IN
              IF w1.err # "none" THEN w1
              ELSE IF s.once
                   THEN emitLoop([w1 EXCEPT !.subs[em] = splice(@, i)], em, event, arg, i, d)
                   ELSE emitLoop(w1, em, event, arg, i + 1, d)

\* emitOnce() that stores the arguments before it tests for a record.
emitOnceSetsFirst(w, em, event, arg, d) ==
    IF has(w.oneTime[em], event)
    THEN [w EXCEPT !.oneTime[em] = mapSet(@, event, arg), !.err = "sealed"]
    ELSE LET w1 == emit(w, em, event, arg, d) IN
         IF w1.err # "none" THEN w1
         ELSE offOnce([w1 EXCEPT !.oneTime[em] = mapSet(@, event, arg)], em, event, NoCallback)

\* emitOnce() that stores the arguments before it dispatches them.
emitOnceSetsBeforeDispatch(w, em, event, arg, d) ==
    IF has(w.oneTime[em], event)
    THEN [w EXCEPT !.err = "sealed"]
    ELSE LET w1 == emitLoop([w EXCEPT !.oneTime[em] = mapSet(@, event, arg)],
                            em, event, arg, 1, d) IN
         IF w1.err # "none" THEN w1
         ELSE offOnce(w1, em, event, NoCallback)

emitOnce(w, em, event, arg, d) ==
    IF has(w.oneTime[em], event)
    THEN [w EXCEPT !.err = "sealed"]
    ELSE LET w1 == emit(w, em, event, arg, d) IN
         IF w1.err # "none" THEN w1
         ELSE offOnce([w1 EXCEPT !.oneTime[em] = mapSet(@, event, arg)], em, event, NoCallback)

\* pipe() that subscribes its arrow function with once() (as pipeOnce does).
pipeSubscribesWithOnce(w, em, event, eventEmitter, q, d) ==
    IF has(w.oneTime[em], event)
    THEN runCallback(w, PipeCallback(eventEmitter, q), get(w.oneTime[em], event),
                     [em |-> em, event |-> event], d + 1)
    ELSE [w EXCEPT !.subs[em] =
                      Append(@, Subscription(event, PipeCallback(eventEmitter, q), TRUE))]

\* pipe() the other way round: the arrow function is subscribed on
\* eventEmitter and emits on this emitter.
pipeReversed(w, em, event, eventEmitter, q, d) ==
    on(w, eventEmitter, event, PipeCallback(em, q), d)

\* pipe(): on() with a new arrow function, the q-th made, that emits the
\* event on eventEmitter.
pipe(w, em, event, eventEmitter, q, d) ==
    on(w, em, event, PipeCallback(eventEmitter, q), d)

\* pipeOnce() that subscribes its function with on() (as pipe does).
pipeOnceSubscribesWithOn(w, em, event, eventEmitter, d) ==
    LET p == Len(w.promises) + 1
        w0 == [w EXCEPT !.promises = Append(@, "pending")]
    IN  on(w0, em, event, OurCallbackPipe(eventEmitter, p), d)

\* pipeOnce(): once() with a new arrow function that calls emitOnce on
\* eventEmitter.
pipeOnce(w, em, event, eventEmitter, d) ==
    LET p == Len(w.promises) + 1
        w0 == [w EXCEPT !.promises = Append(@, "pending")]
    IN  onceExecutor(w0, em, event, OurCallbackPipe(eventEmitter, p), p, d)

\* stop() that leaves the callback out of its call of off().
stopRemovesEvent(w, h) == off(w, h.em, h.event, NoCallback)

\* stop() and remove() of the handle on() returned.
stop(w, h) == off(w, h.em, h.event, h.callback)
remove(w, h) == stop(w, h)

\* The setter of prepared: it emits internal_ready whatever value is.
setPrepared(w, em, value, d) ==
    emit(w, em, InternalReady, << >>, d)

\* runCallback(callback, ...arg) at nesting depth d, as run for event ctx.event
\* of emitter ctx.em.  Every run is appended to the log.
runCallback(w, callback, arg, ctx, d) ==
    IF d > MaxDepth THEN [w EXCEPT !.err = "RangeError"]
    ELSE LET w0 == [w EXCEPT !.log = Append(@, [em |-> ctx.em, event |-> ctx.event,
                                                 callback |-> callback, arg |-> arg])]
         IN  CASE callback.kind = "user" -> runBody(w0, BodyOn(callback.fn, arg), 1, d)
               [] callback.kind = "readySetter" -> [w0 EXCEPT !.ready[callback.owner] = TRUE]
               [] callback.kind = "ourCallback" ->
                    LET w1 == resolve(w0, callback.p, Undefined) IN
                    IF callback.fn = Undefined THEN w1
                    ELSE runBody(w1, BodyOn(callback.fn, arg), 1, d)
               [] callback.kind = "pipe" -> emit(w0, callback.owner, ctx.event, arg, d)
               [] callback.kind = "ourCallbackPipe" ->
                    emitOnce(resolve(w0, callback.p, Undefined), callback.owner, ctx.event,
                             arg, d)
               [] callback.kind = "ourCallbackAsync" ->
                    readyArrow(resolve(w0, callback.p, Undefined), ctx.em, callback.fn,
                               callback.q, d)
               [] OTHER -> w0

\* The statements of a listener function from the k-th on.
runBody(w, cmds, k, d) ==
    IF w.err # "none" \/ k > Len(cmds) THEN w
    ELSE runBody(exec(w, cmds[k], d), cmds, k + 1, d)

\* One statement of a listener function.
exec(w, cmd, d) ==
    CASE cmd.op = "throw" -> [w EXCEPT !.err = "listener"]
      [] cmd.op = "emit" -> emit(w, cmd.em, cmd.event, cmd.arg, d)
      [] cmd.op = "emitOnce" -> emitOnce(w, cmd.em, cmd.event, cmd.arg, d)
      [] cmd.op = "on" -> on(w, cmd.em, cmd.event, cmd.callback, d)
      [] cmd.op = "off" -> off(w, cmd.em, cmd.event, cmd.callback)
      [] cmd.op = "offOnce" -> offOnce(w, cmd.em, cmd.event, cmd.callback)
      [] cmd.op = "clearEvents" -> clearEvents(w, cmd.em)
      [] OTHER -> w

(* ------------------------------ the state ------------------------------ *)

\* The emitters' fields as the method bodies see them when a call starts.
World ==
    [subs |-> subs, oneTime |-> oneTime, ready |-> ready, promises |-> promises,
     log |-> << >>, err |-> "none", microtasks |-> microtasks, handles |-> handles]

\* A call as the caller sees it: what was called, the error raised to the
\* caller (err), by how many entries, and by how many once entries, the
\* registry of em shrank (removed, removedOnce), and
\* whether the event (for clearEvents: any event) had a permanent record when
\* the call started (wasSealed); for a call on a handle, which one (h).
Call(op, em, event, fn, arg) ==
    [op |-> op, em |-> em, event |-> event, fn |-> fn, arg |-> arg,
     err |-> "none", removed |-> 0, removedOnce |-> 0, wasSealed |-> FALSE, h |-> 0]

\* The handle on() returns for (event, callback) on emitter em.  added: the
\* call queued an entry (it did not replay a record); gone: since the handle
\* was made, some call has left the registry without any entry of callback
\* for event, so that the entry the handle was made for is no longer there.
Handle(em, event, callback, added) ==
    [em |-> em, event |-> event, callback |-> callback, added |-> added, gone |-> FALSE]

\* The registry of the handle's emitter holds an entry of its callback for
\* its event.
Registered(s, h) ==
    \E k \in 1..Len(s[h.em]) : s[h.em][k].event = h.event /\ s[h.em][k].callback = h.callback

\* The entries of a registry that once() made.
OnceEntries(seq) == SelectSeq(seq, LAMBDA s : s.once)

\* The fields after the call, the error it raised to its caller, and its log.
Commit(w, call) ==
    /\ subs' = w.subs
    /\ oneTime' = w.oneTime
    /\ ready' = w.ready
    /\ promises' = w.promises
    /\ log' = w.log
    /\ microtasks' = w.microtasks
    /\ handles' = [k \in DOMAIN w.handles |->
                     [w.handles[k] EXCEPT !.gone = @ \/ ~Registered(w.subs, w.handles[k])]]
    /\ last' = [call EXCEPT
                  !.err = w.err,
                  !.removed = IF Len(subs[call.em]) > Len(w.subs[call.em])
                              THEN Len(subs[call.em]) - Len(w.subs[call.em]) ELSE 0,
                  !.removedOnce =
                      IF Len(OnceEntries(subs[call.em])) > Len(OnceEntries(w.subs[call.em]))
                      THEN Len(OnceEntries(subs[call.em])) - Len(OnceEntries(w.subs[call.em]))
                      ELSE 0,
                  !.wasSealed = IF call.event \in Events
                                THEN has(oneTime[call.em], call.event)
                                ELSE oneTime[call.em] # EmptyMap]

\* constructor(): an empty map, and a registry holding the internal listener.
Init ==
    /\ subs = [em \in Emitters |-> <<Subscription(InternalReady, ReadySetter(em), FALSE)>>]
    /\ oneTime = [em \in Emitters |-> EmptyMap]
    /\ ready = [em \in Emitters |-> FALSE]
    /\ promises = << >>
    /\ last = Call("new", "a", "none", Undefined, << >>)
    /\ log = << >>
    /\ microtasks = << >>
    /\ handles = << >>

(* ------------------------------ the actions ---------------------------- *)

On(em, event, fn) ==
    /\ Len(subs[em]) < MaxSubs
    /\ Commit(on(World, em, event, UserCb(fn), 0), Call("on", em, event, fn, << >>))

Off(em, event, fn) ==
    Commit(off(World, em, event, IF fn = Undefined THEN NoCallback ELSE UserCb(fn)),
           Call("off", em, event, fn, << >>))

Once(em, event, fn) ==
    /\ Len(subs[em]) < MaxSubs
    /\ Len(promises) < MaxPromises
    /\ Commit(once(World, em, event, fn, 0), Call("once", em, event, fn, << >>))

OffOnce(em, event, fn) ==
    Commit(offOnce(World, em, event, IF fn = Undefined THEN NoCallback ELSE UserCb(fn)),
           Call("offOnce", em, event, fn, << >>))

Emit(em, event, arg) ==
    Commit(emit(World, em, event, arg, 0), Call("emit", em, event, Undefined, arg))

EmitOnce(em, event, arg) ==
    Commit(emitOnce(World, em, event, arg, 0), Call("emitOnce", em, event, Undefined, arg))

ClearEvents(em) ==
    Commit(clearEvents(World, em), Call("clearEvents", em, "none", Undefined, << >>))

\* The calls a program makes on one emitter, "a", with the user events.
Next ==
    \/ \E i \in OnInputs : On("a", i[1], i[2])
    \/ \E i \in OffInputs : Off("a", i[1], i[2])
    \/ \E i \in OnceInputs : Once("a", i[1], i[2])
    \/ \E i \in OffOnceInputs : OffOnce("a", i[1], i[2])
    \/ \E i \in EmitInputs : Emit("a", i[1], i[2])
    \/ \E i \in EmitOnceInputs : EmitOnce("a", i[1], i[2])
    \/ ClearEvents("a")

Spec == Init /\ [][Next]_vars

(* ------------------------- ready() and prepared ------------------------ *)

\* The functions ready() is called with; Undefined stands for no callback.
ReadyFns == {"cb", "thrower", Undefined}
\* The values written to prepared.
PreparedValues == {"true", "false"}

Ready(em, fn) ==
    /\ Len(subs[em]) < MaxSubs
    /\ Len(promises) + 2 <= MaxReadyPromises
    /\ Commit(readyCall(World, em, fn, 0), Call("ready", em, "none", fn, << >>))

SetPrepared(em, value) ==
    Commit(setPrepared(World, em, value, 0),
           Call("prepared", em, InternalReady, Undefined, <<value>>))

\* The event loop runs the oldest waiting continuation.
RunMicrotask ==
    /\ Len(microtasks) > 0
    /\ Commit(resolve([World EXCEPT !.microtasks = Tail(@)],
                      Head(microtasks).p, Head(microtasks).value),
              Call("microtask", Head(microtasks).em, "none", Undefined, << >>))

\* A program that waits for emitter "a" to be ready and declares it ready.
NextReady ==
    \/ \E fn \in ReadyFns : Ready("a", fn)
    \/ \E value \in PreparedValues : SetPrepared("a", value)
    \/ ClearEvents("a")
    \/ RunMicrotask

SpecReady == Init /\ [][NextReady]_vars

(* ------------------------- what the claims use ------------------------- *)

\* A listener function that returns normally and makes no call on an emitter.
Passive(fn) == Len(Body(fn)) = 0

\* The entries of a registry for one event, in registry order.
EntriesFor(seq, event) == SelectSeq(seq, LAMBDA s : s.event = event)
OnEntriesFor(seq, event) == SelectSeq(seq, LAMBDA s : s.event = event /\ ~s.once)

\* The runs of on-subscriptions in a log, in the order they happened.
OnRuns(l) == SelectSeq(l, LAMBDA e : e.callback.kind = "user")

\* The log that running each on-subscription of event once, in registry
\* order, with arg, leaves.
ExpectedOnRuns(seq, em, event, arg) ==
    [k \in 1..Len(OnEntriesFor(seq, event)) |->
        [em |-> em, event |-> event, callback |-> OnEntriesFor(seq, event)[k].callback,
         arg |-> arg]]

\* The step is a call of op made from outside any listener.
Called(op) == last'.op = op

(* --------------------------------- C1 ---------------------------------- *)

C2_OffPreventsInvocation ==
    [][/\ (Called("off") /\ last'.fn # Undefined)
          => \A k \in 1..Len(subs'[last'.em]) :
                ~(/\ subs'[last'.em][k].event = last'.event
                  /\ subs'[last'.em][k].callback = UserCb(last'.fn))
       /\ Called("emit")
          => \A fn \in Fns :
                (\A k \in 1..Len(subs[last'.em]) :
                    ~(/\ subs[last'.em][k].event = last'.event
                      /\ subs[last'.em][k].callback = UserCb(fn)))
                => \A j \in 1..Len(log') : log'[j].callback # UserCb(fn)]_vars

\* off(E, cb) has just removed the subscription on(E, cb) made, and another
\* listener of E is still registered for the next emit.
C2_Witness ==
    /\ last.op = "off" /\ last.event = "E" /\ last.fn = "cb" /\ last.removed = 1
    /\ \E k \in 1..Len(subs["a"]) : subs["a"][k] = Subscription("E", UserCb("cb2"), FALSE)

(* --------------------------------- C3 ---------------------------------- *)

C4_OnReplaysRecord ==
    [][/\ (Called("emitOnce") /\ last'.err = "none")
          => /\ has(oneTime'[last'.em], last'.event)
             /\ get(oneTime'[last'.em], last'.event) = last'.arg
       /\ (Called("on") /\ has(oneTime[last'.em], last'.event))
          => /\ log' = <<[em |-> last'.em, event |-> last'.event,
                          callback |-> UserCb(last'.fn),
                          arg |-> get(oneTime[last'.em], last'.event)]>>
             /\ subs' = subs
             /\ oneTime' = oneTime]_vars

\* on(E, cb2) called after E was sealed with y: cb2 has run with y.
C4_Witness ==
    /\ last.op = "on" /\ last.event = "E" /\ last.fn = "cb2" /\ last.wasSealed
    /\ log = <<[em |-> "a", event |-> "E", callback |-> UserCb("cb2"), arg |-> <<"y">>]>>

(* --------------------------------- C5 ---------------------------------- *)

\* C5: while E has a permanent record, emit(E, ...) and emitOnce(E, ...) raise
\* the sealed-event error, run no listener and leave the registry and the
\* records unchanged; and a record stays as it is until clearEvents is called.
C5_SealedEventRejectsEmission ==
    [][/\ ((Called("emit") \/ Called("emitOnce")) /\ has(oneTime[last'.em], last'.event))
          => /\ last'.err = "sealed"
             /\ log' = << >>
             /\ subs' = subs
             /\ oneTime' = oneTime
       /\ ~Called("clearEvents")
          => \A em \in Emitters : \A e \in DOMAIN oneTime[em] :
                has(oneTime'[em], e) /\ get(oneTime'[em], e) = get(oneTime[em], e)]_vars

\* emit(E, ...) was refused although a listener of E is in the registry.
C5_Witness ==
    /\ last.op = "emit" /\ last.err = "sealed" /\ log = << >>
    /\ Len(EntriesFor(subs[last.em], last.event)) > 0

(* --------------------------------- C6 ---------------------------------- *)

\* C6: when emitOnce(E, a) has returned and emitOnce(E, b) is called next, the
\* second call raises and the record of E is still a; an on(E, cb) called
\* after the refused call replays the record that call left untouched.
C6_SecondEmitOnceKeepsRecord ==
    [][/\ (/\ last.op = "emitOnce" /\ last.err = "none"
           /\ Called("emitOnce") /\ last'.em = last.em /\ last'.event = last.event)
          => /\ last'.err = "sealed"
             /\ get(oneTime'[last.em], last.event) = last.arg
       /\ (/\ last.op = "emitOnce" /\ last.err = "sealed"
           /\ Called("on") /\ last'.em = last.em /\ last'.event = last.event)
          => /\ Len(log') = 1
             /\ log'[1].callback = UserCb(last'.fn)
             /\ log'[1].arg = get(oneTime[last.em], last.event)
             /\ oneTime' = oneTime]_vars

\* emitOnce(E, y) was refused and the record of E is x.
C6_Witness ==
    /\ last.op = "emitOnce" /\ last.err = "sealed" /\ last.event = "E"
    /\ last.arg = <<"y">> /\ get(oneTime["a"], "E") = <<"x">>

(* --------------------------------- C7 ---------------------------------- *)

\* C7: clearEvents() leaves the registry and the record map empty; an
\* emitOnce(E, b) called next returns without error and stores b, and an
\* on(E, cb) called after it replays b.
C7_ClearEventsAllowsResealing ==
    [][/\ Called("clearEvents")
          => subs'[last'.em] = << >> /\ oneTime'[last'.em] = EmptyMap
       /\ (last.op = "clearEvents" /\ Called("emitOnce") /\ last'.em = last.em)
          => /\ last'.err = "none"
             /\ oneTime'[last'.em] = mapSet(EmptyMap, last'.event, last'.arg)
       /\ (/\ last.op = "emitOnce" /\ last.err = "none"
           /\ Called("on") /\ last'.em = last.em /\ last'.event = last.event)
          => log' = <<[em |-> last.em, event |-> last.event,
                       callback |-> UserCb(last'.fn), arg |-> last.arg]>>]_vars

\* clearEvents() was called while an event was sealed and the registry held
\* entries: both are empty now.
C7_Witness ==
    /\ last.op = "clearEvents" /\ last.wasSealed /\ last.removed >= 2
    /\ subs["a"] = << >> /\ oneTime["a"] = EmptyMap

(* --------------------------------- C8 ---------------------------------- *)

\* C8: the promise returned by once(E, cb) resolves with the value cb
\* returned: after a run of the once-subscription of a cb that returns, the
\* promise holds Ret(cb).
C8_OncePromiseResolvesWithReturnValue ==
    \A j \in 1..Len(log) :
        (/\ log[j].callback.kind = "ourCallback"
         /\ log[j].callback.fn # Undefined
         /\ Passive(log[j].callback.fn))
        => promises[log[j].callback.p] = Ret(log[j].callback.fn)

(* --------------------------------- C9 ---------------------------------- *)

\* C9: after once(E, cb) followed by offOnce(E, cb) the registry holds no
\* once-subscription of cb to E.
C9_OffOnceRemovesOnceSubscription ==
    (last.op = "offOnce" /\ last.fn # Undefined)
    => \A k \in 1..Len(subs[last.em]) :
          ~(/\ subs[last.em][k].event = last.event
            /\ subs[last.em][k].once
            /\ subs[last.em][k].callback.fn = last.fn)

(* --------------------------------- C10 --------------------------------- *)

\* C10: between calls, an event that has a permanent record has no entry in
\* the registry, neither once nor non-once.
C10_SealedEventHasNoEntry ==
    \A em \in Emitters : \A e \in DOMAIN oneTime[em] :
        Len(EntriesFor(subs[em], e)) = 0

(* ------------------------- handles and pipes -------------------------- *)

\* on() by a caller that keeps the handle.
OnKeep(em, event, fn) ==
    /\ Len(subs[em]) < MaxSubs
    /\ Len(handles) < MaxHandles
    /\ Commit([on(World, em, event, UserCb(fn), 0) EXCEPT
                  !.handles = Append(@, Handle(em, event, UserCb(fn),
                                               ~has(oneTime[em], event)))],
              Call("on", em, event, fn, << >>))

Pipe(em, event, eventEmitter) ==
    /\ Len(subs[em]) < MaxSubs
    /\ Len(handles) < MaxHandles
    /\ LET q == Len(handles) + 1 IN
       Commit([pipe(World, em, event, eventEmitter, q, 0) EXCEPT
                  !.handles = Append(@, Handle(em, event, PipeCallback(eventEmitter, q),
                                               ~has(oneTime[em], event)))],
              Call("pipe", em, event, Undefined, << >>))

PipeOnce(em, event, eventEmitter) ==
    /\ Len(subs[em]) < MaxSubs
    /\ Len(promises) < MaxPromises
    /\ Commit(pipeOnce(World, em, event, eventEmitter, 0),
              Call("pipeOnce", em, event, Undefined, << >>))

Stop(k) ==
    Commit(stop(World, handles[k]),
           [Call("stop", handles[k].em, handles[k].event, handles[k].callback.fn, << >>)
              EXCEPT !.h = k])

Remove(k) ==
    Commit(remove(World, handles[k]),
           [Call("remove", handles[k].em, handles[k].event, handles[k].callback.fn, << >>)
              EXCEPT !.h = k])

\* The listeners subscribed on the two emitters, as (emitter, function).
PipeOnInputs ==
    {<<"a", "cb">>, <<"a", "thrower">>, <<"b", "cb">>, <<"b", "cb2">>, <<"b", "thrower">>}
\* The emissions made on the two emitters, as (emitter, arguments).
PipeEmitInputs == {<<"a", <<"x">> >>, <<"a", <<"y">> >>, <<"b", <<"x">> >>}

\* A program that pipes event "E" of emitter "a" to emitter "b".
NextPipe ==
    \/ Pipe("a", "E", "b")
    \/ PipeOnce("a", "E", "b")
    \/ \E i \in PipeOnInputs : On(i[1], "E", i[2])
    \/ \E i \in PipeEmitInputs : Emit(i[1], "E", i[2])
    \/ \E k \in 1..Len(handles) : Stop(k)

SpecPipe == Init /\ [][NextPipe]_vars

\* The (event, listener) pairs on() is called with by a caller that keeps the
\* handle.
HandleOnInputs == {<<"E", "cb">>, <<"E", "cb2">>, <<"F", "cb">>}

\* A program that subscribes listeners on emitter "a" and uses the handles.
NextHandle ==
    \/ \E i \in HandleOnInputs : OnKeep("a", i[1], i[2])
    \/ Off("a", "E", "cb")
    \/ Once("a", "E", "cb")
    \/ \E k \in 1..Len(handles) : Stop(k)
    \/ \E k \in 1..Len(handles) : Remove(k)
    \/ Emit("a", "E", <<"x">>)
    \/ EmitOnce("a", "E", <<"x">>)

SpecHandle == Init /\ [][NextHandle]_vars

\* A program that subscribes, unsubscribes and emits on emitter "a".
NextOff ==
    \/ \E i \in OnInputs : On("a", i[1], i[2])
    \/ \E i \in OnceInputs : Once("a", i[1], i[2])
    \/ \E i \in OffInputs : Off("a", i[1], i[2])
    \/ \E i \in EmitInputs : Emit("a", i[1], i[2])

SpecOff == Init /\ [][NextOff]_vars

(* --------------------------------- C11 --------------------------------- *)

\* C11: after the write prepared = true, made in any reachable state, reading
\* prepared returns true.
C11_PreparedTrueSetsFlag ==
    (last.op = "prepared" /\ last.arg = <<"true">>) => ready[last.em]

(* --------------------------------- C12 --------------------------------- *)

\* The event loop gets to every waiting continuation.
FairSpecReady == SpecReady /\ WF_vars(RunMicrotask)

\* The entries ready() made in a registry, and their runs in a log.
ReadyEntries(seq) == SelectSeq(seq, LAMBDA s : s.callback.kind = "ourCallbackAsync")
ReadyRuns(l) == SelectSeq(l, LAMBDA e : e.callback.kind = "ourCallbackAsync")

\* The promise of ready() that entry s was made for is waiting to be settled
\* with what the function of s returns.
SettlesWithResult(s, tasks) ==
    \E k \in 1..Len(tasks) :
        /\ tasks[k].p = s.callback.q
        /\ tasks[k].value = Ret(s.callback.fn)

C13_ReadyDefersCallback ==
    (last.op = "ready" /\ ready[last.em]) => log = << >>

\* C13 as amended: ready(cb) called when prepared is already true runs cb
\* inside the call, before ready returns, and queues nothing; only the
\* promise it returns is settled on a later turn: it is still pending when
\* ready returns, with cb's result waiting for it (if cb raises, the promise
\* is rejected and the caller sees no error).
C13_ReadyRunsCallbackInline ==
    [][(Called("ready") /\ ready[last'.em])
         => /\ log' = IF last'.fn = Undefined THEN << >>
                      ELSE <<[em |-> last'.em, event |-> "ready",
                              callback |-> UserCb(last'.fn), arg |-> << >>]>>
            /\ subs' = subs
            /\ last'.err = "none"
            /\ IF last'.fn = Undefined \/ Passive(last'.fn)
               THEN /\ promises' = Append(promises, "pending")
                    /\ microtasks' = Append(microtasks,
                                            [em |-> last'.em, p |-> Len(promises) + 1,
                                             value |-> Ret(last'.fn)])
               ELSE /\ promises' = Append(promises, "rejected")
                    /\ microtasks' = microtasks]_vars

\* ready(cb) on a ready emitter has returned: cb has run, the promise waits.
C13_Witness ==
    /\ last.op = "ready"
    /\ ready[last.em]
    /\ log = <<[em |-> last.em, event |-> "ready", callback |-> UserCb("cb"), arg |-> << >>]>>
    /\ promises[Len(promises)] = "pending"
    /\ Len(microtasks) > 0
    /\ microtasks[Len(microtasks)].p = Len(promises)

(* --------------------------------- C14 --------------------------------- *)

\* The arrow functions pipe() subscribed to event in a registry that forward
\* to target.
PipeEntries(seq, event, target) ==
    SelectSeq(seq, LAMBDA s : s.event = event /\ s.callback.kind = "pipe"
                              /\ s.callback.owner = target)

\* The runs in a log of the functions callers subscribed on emitter em.
UserRunsOn(l, em) == SelectSeq(l, LAMBDA e : e.em = em /\ e.callback.kind = "user")

\* Every entry of event in a registry is a function of a caller that returns
\* normally and calls no emitter, or (where pipes are let in) an arrow
\* function of pipe().
QuietEntries(seq, event, pipes) ==
    \A k \in 1..Len(seq) :
        seq[k].event = event
           => \/ seq[k].callback.kind = "user" /\ Passive(seq[k].callback.fn)
              \/ pipes /\ seq[k].callback.kind = "pipe"

\* n rounds of the runs ExpectedOnRuns lists.
Rounds(n, runs) ==
    [k \in 1..(n * Len(runs)) |-> runs[((k - 1) % Len(runs)) + 1]]

UserEntriesFor(seq, event) ==
    SelectSeq(seq, LAMBDA s : s.event = event /\ s.callback.kind = "user")

\* Some call of pipe() has been made.
PipeMade == \E k \in 1..Len(handles) : handles[k].callback.kind = "pipe"

PipeOnceEntries(seq, event, target) ==
    SelectSeq(seq, LAMBDA s : s.event = event /\ s.callback.kind = "ourCallbackPipe"
                              /\ s.callback.owner = target)
PipeOnceRuns(l) == SelectSeq(l, LAMBDA e : e.callback.kind = "ourCallbackPipe")

CalledOnHandle == Called("stop") \/ Called("remove")

\* What a registry holds besides the entries of the handle's callback for
\* the handle's event.
WithoutEntriesOf(seq, h) ==
    SelectSeq(seq, LAMBDA s : ~(s.event = h.event /\ s.callback = h.callback))

\* C17 as stated: stop() or remove() on the handle on(E, cb) returned removes
\* the subscription of cb to E and leaves every subscription with another
\* event or another callback unchanged; called again, or on a handle whose
\* subscription is already gone or was never added because E was sealed, it
\* changes nothing; it raises no error.
C17_HandleRemovesOwnSubscriptionOnly ==
    [][CalledOnHandle
         => LET h == handles[last'.h] IN
            /\ last'.err = "none"
            /\ subs' = [subs EXCEPT ![h.em] = WithoutEntriesOf(@, h)]
            /\ (h.gone \/ ~h.added) => subs' = subs]_vars

\* C17 as amended: stop() or remove() on the handle on(E, cb) returned removes
\* every subscription of cb to E that on() made, whichever call of on(E, cb)
\* made it, and leaves every subscription with another event or another
\* callback unchanged, in order; while no subscription of cb to E is
\* registered it changes nothing; it runs no listener, leaves the permanent
\* records alone and raises no error.
C17_HandleRemovesSubscriptionsOfItsCallback ==
    [][CalledOnHandle
         => LET h == handles[last'.h] IN
            /\ last'.err = "none"
            /\ subs' = [subs EXCEPT ![h.em] = WithoutEntriesOf(@, h)]
            /\ ~Registered(subs, h) => subs' = subs
            /\ oneTime' = oneTime
            /\ log' = << >>]_vars

\* stop() has removed the subscription on(E, cb) made, and the subscription
\* once(E, cb) made, whose callback is another function, is still there.
C17_Witness ==
    /\ last.op = "stop" /\ last.event = "E" /\ last.fn = "cb"
    /\ last.removed = 1
    /\ handles[last.h].gone
    /\ \E k \in 1..Len(subs["a"]) :
          /\ subs["a"][k].event = "E"
          /\ subs["a"][k].callback.kind = "ourCallback"
          /\ subs["a"][k].callback.fn = "cb"

(* --------------------------------- C18 --------------------------------- *)

IsPrefix(s1, s2) == Len(s1) <= Len(s2) /\ SubSeq(s2, 1, Len(s1)) = s1

\* No entry of a registry for event forwards to another emitter.
NoForwarder(seq, event) ==
    \A k \in 1..Len(seq) :
        seq[k].event = event => seq[k].callback.kind \notin {"pipe", "ourCallbackPipe"}

\* C18: stop() (or remove()) on the handle source.pipe(E, target) returned
\* takes the forwarding listener, and nothing else, out of the registry of
\* source.  An emit(E, x) on source made after it does not run the
\* forwarding listener (and reaches no listener of target, if no other pipe
\* forwards E), while every listener of source that an emit(E, x) made just
\* before the stop() would have invoked is still invoked, in the same order.
C18_StoppedPipeEndsForwardingOnly ==
    [][(CalledOnHandle /\ handles[last'.h].callback.kind = "pipe")
         => LET h == handles[last'.h] IN
            /\ last'.err = "none"
            /\ subs' = [subs EXCEPT ![h.em] =
                                      SelectSeq(@, LAMBDA s : s.callback # h.callback)]
            /\ \A arg \in Args :
                  \A before \in {emit(World, h.em, h.event, arg, 0).log} :
                  \A after \in {emit(World', h.em, h.event, arg, 0).log} :
                     /\ \A j \in 1..Len(after) : after[j].callback # h.callback
                     /\ NoForwarder(subs'[h.em], h.event)
                           => \A j \in 1..Len(after) : after[j].em = h.em
                     /\ IsPrefix(UserRunsOn(before, h.em), UserRunsOn(after, h.em))]_vars

\* stop() has taken a pipe out of the source, on which a listener of E is
\* still subscribed, while the target has a listener of E.
C18_Witness ==
    /\ last.op = "stop" /\ last.em = "a"
    /\ handles[last.h].callback.kind = "pipe"
    /\ last.removed = 1
    /\ Len(UserEntriesFor(subs["a"], "E")) > 0
    /\ Len(UserEntriesFor(subs["b"], "E")) > 0
    /\ NoForwarder(subs["a"], "E")

(* --------------------------------- C19 --------------------------------- *)

C20_OffWithoutCallbackRemovesEvent ==
    [][(Called("off") /\ last'.fn = Undefined)
         => /\ subs' = [subs EXCEPT ![last'.em] =
                          SelectSeq(@, LAMBDA s : s.event # last'.event)]
            /\ Len(EntriesFor(subs'[last'.em], last'.event)) = 0
            /\ last'.err = "none"
            /\ log' = << >>
            /\ oneTime' = oneTime]_vars

\* off(E) has removed an entry on() made and an entry once() made; the
\* entry for internal_ready is where it was.
C20_Witness ==
    /\ last.op = "off" /\ last.event = "E" /\ last.fn = Undefined
    /\ last.removed = 2
    /\ last.removedOnce = 1
    /\ subs["a"] = <<Subscription(InternalReady, ReadySetter("a"), FALSE)>>

(* ---------------------- calls that leave things alone ------------------ *)

\* A program that subscribes, unsubscribes, emits, seals events, clears the
\* emitter and declares it ready.
FrameOnInputs == {<<"E", "cb">>, <<"F", "cb">>}
FrameOnceFns == {"cb", "thrower"}
FrameOffInputs == {<<"E", "cb">>, <<"E", "cb2">>, <<"F", Undefined>>}
FrameOffOnceInputs == {<<"E", "cb">>, <<"E", Undefined>>}

NextFrame ==
    \/ \E i \in FrameOnInputs : On("a", i[1], i[2])
    \/ \E fn \in FrameOnceFns : Once("a", "E", fn)
    \/ \E i \in FrameOffInputs : Off("a", i[1], i[2])
    \/ \E i \in FrameOffOnceInputs : OffOnce("a", i[1], i[2])
    \/ Emit("a", "E", <<"x">>)
    \/ \E event \in UserEvents : EmitOnce("a", event, <<"x">>)
    \/ SetPrepared("a", "true")
    \/ ClearEvents("a")

SpecFrame == Init /\ [][NextFrame]_vars

\* The entries of a registry that on() made.
OnEntries(seq) == SelectSeq(seq, LAMBDA s : ~s.once)

(* --------------------------------- C21 --------------------------------- *)

\* C21: offOnce(E, ...), with or without a callback, removes no entry that
\* on() made: the entries of on(), for E and for every other event, are in
\* the registry after the call as before it, in the same order; the entries
\* it removes are once entries of E.
C21_OffOnceKeepsOnEntries ==
    [][Called("offOnce")
         => /\ OnEntries(subs'[last'.em]) = OnEntries(subs[last'.em])
            /\ SelectSeq(subs'[last'.em], LAMBDA s : s.event # last'.event)
                  = SelectSeq(subs[last'.em], LAMBDA s : s.event # last'.event)
            /\ last'.removed = last'.removedOnce
            /\ \A em \in Emitters \ {last'.em} : subs'[em] = subs[em]]_vars

\* offOnce(E) has removed a once entry of E from a registry that holds an
\* entry on() made for E and one it made for another event.
C21_Witness ==
    /\ last.op = "offOnce" /\ last.event = "E"
    /\ last.removedOnce = 1
    /\ Len(OnEntriesFor(subs["a"], "E")) > 0
    /\ \E k \in 1..Len(subs["a"]) : subs["a"][k].event # "E" /\ ~subs["a"][k].once

(* ------------------- listeners that call the emitter ------------------- *)

\* A program whose listeners of E unsubscribe themselves, cancel the
\* once-subscriptions of E, emit F or emit E again while emit("E") runs them.
ReentryOnInputs == {<<"E", "stopper">>, <<"E", "emitsF">>, <<"E", "cb">>, <<"E", "cb2">>}
ReentryOnceInputs ==
    {<<"E", "cb">>, <<"E", "reemitter">>, <<"E", "offOncer">>, <<"F", "cb">>}

NextReentry ==
    \/ \E i \in ReentryOnInputs : On("a", i[1], i[2])
    \/ \E i \in ReentryOnceInputs : Once("a", i[1], i[2])
    \/ Emit("a", "E", <<"x">>)
    \/ ClearEvents("a")

SpecReentry == Init /\ [][NextReentry]_vars

\* How many entries of a registry hold callback for event, and how many runs
\* of callback for event of emitter em a log holds.
CountOf(seq, event, callback) ==
    Len(SelectSeq(seq, LAMBDA s : s.event = event /\ s.callback = callback))
RunsOf(l, em, event, callback) ==
    Len(SelectSeq(l, LAMBDA e : e.em = em /\ e.event = event /\ e.callback = callback))

\* The listener function makes a call that emits event.
Emits(fn, event) ==
    \E k \in 1..Len(Body(fn)) :
       Body(fn)[k].op \in {"emit", "emitOnce"} /\ Body(fn)[k].event = event

(* --------------------------------- C22 --------------------------------- *)

\* C22 as stated: in a round of emit(E, ...) that raises no error and whose
\* listeners do not emit E again, but may remove subscriptions or emit another
\* event, every on-subscription of E that was registered when the round
\* began and is registered when it ends is invoked exactly once in the round.
C22_RemovalDuringRoundSkipsNothing ==
    [][(/\ Called("emit")
        /\ last'.err = "none"
        /\ \A k \in 1..Len(subs[last'.em]) : ~Emits(subs[last'.em][k].callback.fn, last'.event))
        => \A k \in 1..Len(subs[last'.em]) :
              LET s == subs[last'.em][k] IN
              (/\ s.event = last'.event /\ ~s.once
               /\ CountOf(subs'[last'.em], s.event, s.callback)
                     = CountOf(subs[last'.em], s.event, s.callback))
              => RunsOf(log', last'.em, s.event, s.callback)
                    = CountOf(subs[last'.em], s.event, s.callback)]_vars

(* --------------------------------- C23 --------------------------------- *)

\* The listener function makes no call on an emitter (it may raise).
MakesNoCall(fn) == \A k \in 1..Len(Body(fn)) : Body(fn)[k].op = "throw"

\* C23: an emit(E, ...), or the emit of internal_ready a write to prepared
\* makes, whose listeners of E make no call on an emitter runs listeners of E
\* only, leaves the entries of every other event in the registry in their
\* order, leaves the permanent records unchanged and, unless E is
\* internal_ready, leaves prepared unchanged.
C23_EmitLeavesOtherEventsAlone ==
    [][(/\ Called("emit") \/ Called("prepared")
        /\ \A k \in 1..Len(subs[last'.em]) :
              subs[last'.em][k].event = last'.event
                 => /\ subs[last'.em][k].callback.kind \in {"user", "ourCallback", "readySetter"}
                    /\ MakesNoCall(subs[last'.em][k].callback.fn))
        => /\ SelectSeq(subs'[last'.em], LAMBDA s : s.event # last'.event)
                 = SelectSeq(subs[last'.em], LAMBDA s : s.event # last'.event)
           /\ \A j \in 1..Len(log') : log'[j].em = last'.em /\ log'[j].event = last'.event
           /\ oneTime' = oneTime
           /\ last'.event # InternalReady => ready' = ready
           /\ \A em \in Emitters \ {last'.em} : subs'[em] = subs[em]]_vars

\* emit(E, x) has run a listener of E on an emitter that is prepared, has a
\* permanent record of F and holds a listener of F.
C23_Witness ==
    /\ last.op = "emit" /\ last.event = "E" /\ last.err = "none"
    /\ Len(log) > 0
    /\ ready["a"]
    /\ has(oneTime["a"], "F")
    /\ Len(EntriesFor(subs["a"], "F")) > 0

(* --------------------------------- C24 --------------------------------- *)

\* C24: clearEvents() leaves the value read from prepared as it was, true or
\* false, on every emitter.
C24_ClearEventsKeepsPrepared ==
    [][Called("clearEvents") => ready' = ready]_vars

\* clearEvents() has emptied the registry of an emitter that is prepared.
C24_Witness ==
    /\ last.op = "clearEvents" /\ last.em = "a"
    /\ last.removed > 0
    /\ ready["a"]
    /\ subs["a"] = << >>

(* --------------------------------- C25 --------------------------------- *)

\* C25: once(E, cb) called while E has a permanent record runs cb inside the
\* call, once, with the stored arguments; the promise it returns is resolved
\* when the call returns, whatever cb does; the registry is as before and no
\* error reaches the caller.
C25_OnceReplaysRecord ==
    [][(Called("once") /\ has(oneTime[last'.em], last'.event) /\ last'.fn # Undefined)
         => /\ log' = <<[em |-> last'.em, event |-> last'.event,
                         callback |-> OurCallback(last'.fn, Len(promises) + 1),
                         arg |-> get(oneTime[last'.em], last'.event)]>>
            /\ promises' = Append(promises, Undefined)
            /\ subs' = subs
            /\ oneTime' = oneTime
            /\ last'.err = "none"]_vars

\* once(E, cb) has replayed the record <<"x">> of E to cb: its promise is
\* resolved and the registry holds no once entry.
C25_Witness ==
    /\ last.op = "once" /\ last.event = "E" /\ last.fn = "cb"
    /\ last.wasSealed
    /\ Len(log) = 1 /\ log[1].arg = <<"x">>
    /\ promises[Len(promises)] = Undefined
    /\ OnceEntries(subs["a"]) = << >>

(* --------------------------------- C26 --------------------------------- *)

\* The callback argument of an off()/offOnce() call made with fn.
CallbackArg(fn) == IF fn = Undefined THEN NoCallback ELSE UserCb(fn)

\* The entry is one that off(event, callback), or offOnce(event, callback)
\* when onlyOnce, is to remove: it is of the event, it holds the callback
\* itself when one is given, and for offOnce it is a once entry.
Matches(s, event, callback, onlyOnce) ==
    /\ s.event = event
    /\ callback = NoCallback \/ s.callback = callback
    /\ onlyOnce => s.once

\* C26: an off(E, cb) or offOnce(E, cb), with or without cb, made while no
\* entry of the registry matches (no entry of E at all, none holding cb, or
\* E sealed and left without such an entry) raises no error, runs no
\* listener and leaves the registry, the permanent records, prepared and the
\* promises as they were.
C26_OffWithoutMatchChangesNothing ==
    [][(/\ Called("off") \/ Called("offOnce")
        /\ \A k \in 1..Len(subs[last'.em]) :
              ~Matches(subs[last'.em][k], last'.event, CallbackArg(last'.fn),
                       last'.op = "offOnce"))
        => /\ last'.err = "none"
           /\ log' = << >>
           /\ subs' = subs
           /\ oneTime' = oneTime
           /\ ready' = ready
           /\ promises' = promises]_vars

\* offOnce(E, cb) was called on an emitter whose registry is not empty and
\* that holds a permanent record of E.
C26_Witness ==
    /\ last.op = "offOnce" /\ last.event = "E" /\ last.fn = "cb"
    /\ last.wasSealed
    /\ last.removed = 0 /\ last.err = "none"
    /\ Len(subs["a"]) > 1

(* --------------------------------- C27 --------------------------------- *)

\* C27 as stated: an emit(E, ...) made while once(E, cb) is subscribed, with
\* a cb that itself calls emit(E, ...), runs the closure of that once() at
\* most once, nested emits included, and returns without an error.
C27_OnceRunsAtMostOnceUnderReentry ==
    [][Called("emit")
         => \A k \in 1..Len(subs[last'.em]) :
               LET s == subs[last'.em][k] IN
               (s.event = last'.event /\ s.once /\ Emits(s.callback.fn, s.event))
               => /\ RunsOf(log', last'.em, s.event, s.callback) <= 1
                  /\ last'.err = "none"]_vars

(* --------------------------------- C28 --------------------------------- *)

\* Some listener function subscribed in the registry makes a call that is to
\* remove the entry: an off() or offOnce() that matches it, or clearEvents().
AskedFor(s, seq) ==
    \E k \in 1..Len(seq) :
       \E j \in 1..Len(Body(seq[k].callback.fn)) :
          LET c == Body(seq[k].callback.fn)[j] IN
          \/ c.op = "clearEvents"
          \/ c.op \in {"off", "offOnce"} /\ Matches(s, c.event, c.callback, c.op = "offOnce")

\* C28 as stated: emit(E, ...) removes once entries it has run and nothing
\* else, also when their callbacks change the registry: every entry on()
\* made, for E or for another event, that no listener's own call is to
\* remove is in the registry after the round, in the same order.
C28_SpliceRemovesOnlyTheOnceEntry ==
    [][Called("emit")
         => SelectSeq(subs'[last'.em], LAMBDA s : ~s.once /\ ~AskedFor(s, subs[last'.em]))
               = SelectSeq(subs[last'.em], LAMBDA s : ~s.once /\ ~AskedFor(s, subs[last'.em]))]_vars

(* --------------------------------- C29 --------------------------------- *)

\* A program whose listener of E seals E while emitOnce("E") runs it.
SealOnInputs == {<<"E", "sealer">>, <<"E", "cb">>}

NextSeal ==
    \/ \E i \in SealOnInputs : On("a", i[1], i[2])
    \/ Once("a", "E", "cb")
    \/ \E arg \in Args : EmitOnce("a", "E", arg)
    \/ Emit("a", "E", <<"x">>)
    \/ ClearEvents("a")

SpecSeal == Init /\ [][NextSeal]_vars

\* The log holds a run, for event of emitter em with arg, of a listener
\* function that calls emitOnce(event, ...) when called with arg.
SealedWithin(l, em, event, arg) ==
    \E j \in 1..Len(l) :
       /\ l[j].em = em /\ l[j].event = event /\ l[j].arg = arg
       /\ \E k \in 1..Len(BodyOn(l[j].callback.fn, arg)) :
             /\ BodyOn(l[j].callback.fn, arg)[k].op = "emitOnce"
             /\ BodyOn(l[j].callback.fn, arg)[k].event = event

\* C29 as stated: when a listener run by emitOnce(E, a) has itself called
\* emitOnce(E, b), which sealed E with b, and the outer call returns
\* normally, the record of E is b: it was written once, by the nested
\* call, and the outer call does not overwrite it with a.
C29_NestedEmitOnceSealsOnce ==
    [][(/\ Called("emitOnce")
        /\ last'.err = "none"
        /\ SealedWithin(log', last'.em, last'.event, last'.arg))
        => get(oneTime'[last'.em], last'.event) = <<"y">>]_vars

(* --------------------------------- C30 --------------------------------- *)

\* C30 as stated: clearEvents() called while prepared is false and a
\* ready(cb) is pending takes nothing from it: the
\* callbacks of ready() that writing prepared = true just before the
\* clearEvents() would have invoked, and the completions of their promises
\* it would have scheduled, are invoked and scheduled by the write made just
\* after it.
C30_PendingReadySurvivesClearEvents ==
    [][(/\ Called("clearEvents")
        /\ ~ready[last'.em]
        /\ \E k \in 1..Len(ReadyEntries(subs[last'.em])) :
              ReadyEntries(subs[last'.em])[k].callback.fn = "cb")
         => \A before \in {setPrepared(World, last'.em, "true", 0)} :
            \A after \in {setPrepared(World', last'.em, "true", 0)} :
               /\ ReadyRuns(after.log) = ReadyRuns(before.log)
               /\ after.microtasks = before.microtasks]_vars

(* --------------------------------- C31 --------------------------------- *)

\* C31 as stated: a write of false to prepared runs no listener of
\* internal_ready, so no callback of a pending ready(), and prepared reads
\* false after it.
C31_PreparedFalseEmitsNothing ==
    [][(Called("prepared") /\ last'.arg = <<"false">>)
         => /\ log' = << >>
            /\ ~ready'[last'.em]]_vars

(* --------------------------------- C32 --------------------------------- *)

\* C32 as stated: stop() or remove() on the handle one of two on(E, cb) calls
\* returned, made while the registry holds the two entries of cb for E,
\* removes one of them: one entry is left, and an emit(E, x) made after it
\* invokes cb once.
C32_StopRemovesOneOfTwoRegistrations ==
    [][(CalledOnHandle
        /\ CountOf(subs[last'.em], last'.event, handles[last'.h].callback) = 2)
         => LET h == handles[last'.h] IN
            /\ CountOf(subs'[h.em], h.event, h.callback) = 1
            /\ \A after \in {emit(World', h.em, h.event, <<"x">>, 0).log} :
                  RunsOf(after, h.em, h.event, h.callback) = 1]_vars

\* C32 as amended: on(E, cb) for an event without a record appends an entry
\* also when the registry holds one of cb for E already; an emit(E, args)
\* that returns normally invokes cb once for each of its entries, with args;
\* stop() or remove() on the handle any of these on(E, cb) calls returned
\* removes all entries of cb for E, so that an emit(E, x) made after it does
\* not invoke cb.
C32_StopRemovesEveryRegistration ==
    [][/\ (Called("on") /\ ~has(oneTime[last'.em], last'.event))
          => subs' = [subs EXCEPT ![last'.em] =
                        Append(@, Subscription(last'.event, UserCb(last'.fn), FALSE))]
       /\ (Called("emit") /\ last'.err = "none")
          => \A fn \in Fns :
                /\ RunsOf(log', last'.em, last'.event, UserCb(fn))
                      = CountOf(subs[last'.em], last'.event, UserCb(fn))
                /\ \A j \in 1..Len(log') : log'[j].arg = last'.arg
       /\ CalledOnHandle
          => LET h == handles[last'.h] IN
             /\ CountOf(subs'[h.em], h.event, h.callback) = 0
             /\ \A after \in {emit(World', h.em, h.event, <<"x">>, 0).log} :
                   RunsOf(after, h.em, h.event, h.callback) = 0]_vars

\* stop() on the handle of one of two on(E, cb) calls has removed both
\* entries of cb.
C32_Witness ==
    /\ last.op = "stop" /\ last.event = "E" /\ last.fn = "cb"
    /\ last.removed = 2
    /\ Len(handles) = 2 /\ handles[1].callback = handles[2].callback
    /\ handles[1].event = "E" /\ handles[2].event = "E"
    /\ CountOf(subs["a"], "E", UserCb("cb")) = 0

(* --------------------------------- C33 --------------------------------- *)

\* emit() as a program calls it that lets the registry grow no further than
\* one entry past MaxSubs.
EmitWithin(em, event, arg) ==
    /\ Len(subs[em]) <= MaxSubs
    /\ Emit(em, event, arg)

\* A program whose listener of E subscribes another listener to E while
\* emit("E") runs it.
AddOnInputs == {<<"E", "adder">>, <<"E", "cb2">>, <<"E", "thrower">>, <<"E", "stopper">>}

NextAdd ==
    \/ \E i \in AddOnInputs : On("a", i[1], i[2])
    \/ Once("a", "E", "adder")
    \/ \E arg \in Args : EmitWithin("a", "E", arg)
    \/ ClearEvents("a")

SpecAdd == Init /\ [][NextAdd]_vars

\* The listener function subscribes a listener and makes no other call.
OnlyAdds(fn) ==
    /\ Len(Body(fn)) > 0
    /\ \A k \in 1..Len(Body(fn)) : Body(fn)[k].op = "on"

\* The runs that the entries of a registry for event leave in a log when
\* each is run once, in registry order, with arg.
ExpectedRuns(seq, em, event, arg) ==
    [k \in 1..Len(EntriesFor(seq, event)) |->
        [em |-> em, event |-> event, callback |-> EntriesFor(seq, event)[k].callback,
         arg |-> arg]]

\* n copies of x in a sequence.
Copies(n, x) == [k \in 1..n |-> x]

\* How many entries of a registry for event hold a function that only adds.
Adders(seq, event) ==
    Len(SelectSeq(seq, LAMBDA s : s.event = event /\ OnlyAdds(s.callback.fn)))

SealRoundOnInputs == {<<"E", "stopper">>, <<"E", "adder">>, <<"E", "cb">>, <<"E", "cb2">>}

NextSealRound ==
    \/ \E i \in SealRoundOnInputs : On("a", i[1], i[2])
    \/ \E arg \in Args : EmitOnce("a", "E", arg)
    \/ ClearEvents("a")

SpecSealRound == Init /\ [][NextSealRound]_vars

\* C34 as stated: when emitOnce(E, a) returns normally, every listener
\* function that still has entries on() made for E when the call returns,
\* made before the call or by a listener during its dispatch, has been run
\* once for each of them, every run of the call was with a, and an on(E, cb)
\* made after the call runs cb once, with a.
C34_EverySubscriberGetsSealedValueOnce ==
    [][/\ (Called("emitOnce") /\ last'.err = "none")
          => /\ \A fn \in Fns \cup ReentrantFns :
                   CountOf(subs'[last'.em], last'.event, UserCb(fn)) > 0
                   => RunsOf(log', last'.em, last'.event, UserCb(fn))
                         = CountOf(subs'[last'.em], last'.event, UserCb(fn))
             /\ \A j \in 1..Len(log') : log'[j].arg = last'.arg
       /\ (Called("on") /\ has(oneTime[last'.em], last'.event))
          => /\ RunsOf(log', last'.em, last'.event, UserCb(last'.fn)) = 1
             /\ \A j \in 1..Len(log') :
                   log'[j].arg = get(oneTime[last'.em], last'.event)]_vars

(* --------------------------------- C35 --------------------------------- *)

\* The entries of a registry for event, in registration order.
EntriesOf(seq, event) == SelectSeq(seq, LAMBDA s : s.event = event)

\* C35: an emit(E, args) in which a listener raises raises to its caller.  The
\* round ran the entries of E in registration order up to the raising one
\* and none registered after it; a raising entry once() made is in the
\* registry after the call, and the next emit(E, ...) runs it again.
C35_RaisingListenerEndsRound ==
    [][(Called("emit") /\ last'.err = "listener")
         => LET ev == EntriesOf(subs[last'.em], last'.event)
                n == Len(log')
            IN  /\ n >= 1 /\ n <= Len(ev)
                /\ \A j \in 1..n :
                      /\ log'[j].callback = ev[j].callback
                      /\ log'[j].arg = last'.arg
                /\ Body(ev[n].callback.fn) = <<[op |-> "throw"]>>
                /\ ev[n].once
                   => /\ \E k \in 1..Len(subs'[last'.em]) : subs'[last'.em][k] = ev[n]
                      /\ \A x \in {emit(World', last'.em, last'.event, <<"y">>, 0)} :
                            \E j \in 1..Len(x.log) : x.log[j].callback = ev[n].callback]_vars

\* An emit(E, y) has raised out of the once-subscription of thrower, whose
\* entry is still registered and whose promise is resolved.  An on-listener
\* ran before it, and another, registered after it, did not run.
C35_Witness ==
    /\ last.op = "emit" /\ last.event = "E" /\ last.err = "listener"
    /\ Len(log) = 2
    /\ log[1].callback = UserCb("cb2")
    /\ log[2].callback.kind = "ourCallback" /\ log[2].callback.fn = "thrower"
    /\ promises[log[2].callback.p] = Undefined
    /\ \E k \in 1..Len(subs["a"]) :
          /\ subs["a"][k].callback = log[2].callback
          /\ k < Len(subs["a"])
          /\ subs["a"][k + 1] = Subscription("E", UserCb("cb"), FALSE)
    /\ last.arg = <<"y">>

(* --------------------------------- C36 --------------------------------- *)

\* C36: an emitOnce(E, a) in which a listener raises stores no permanent
\* record: the records are what they were before the call, E has none, and
\* neither an emit(E, ...) nor an emitOnce(E, ...) made next raises the
\* sealed-event error.
C36_RaisingListenerLeavesEventUnsealed ==
    [][(Called("emitOnce") /\ last'.err = "listener")
         => /\ oneTime' = oneTime
            /\ ~has(oneTime'[last'.em], last'.event)
            /\ \A x \in {emit(World', last'.em, last'.event, <<"y">>, 0)} :
                  x.err # "sealed" /\ Len(x.log) >= 1
            /\ \A x \in {emitOnce(World', last'.em, last'.event, <<"y">>, 0)} :
                  x.err # "sealed" /\ Len(x.log) >= 1]_vars

\* An emitOnce(E, x) has run cb with x and then raised out of thrower: E has
\* no record, and both listeners are still registered.
C36_Witness ==
    /\ last.op = "emitOnce" /\ last.event = "E" /\ last.err = "listener"
    /\ ~has(oneTime["a"], "E")
    /\ log = <<[em |-> "a", event |-> "E", callback |-> UserCb("cb"), arg |-> <<"x">>],
               [em |-> "a", event |-> "E", callback |-> UserCb("thrower"), arg |-> <<"x">>]>>
    /\ subs["a"] = <<Subscription("E", UserCb("cb"), FALSE),
                     Subscription("E", UserCb("thrower"), FALSE)>>

(* --------------------------------- C37 --------------------------------- *)

\* A program that pipes event E of each emitter to the other one.
CycleOnInputs == {<<"a", "cb">>, <<"b", "cb2">>}

NextCycle ==
    \/ Pipe("a", "E", "b")
    \/ Pipe("b", "E", "a")
    \/ \E i \in CycleOnInputs : On(i[1], "E", i[2])
    \/ \E em \in Emitters : Emit(em, "E", <<"x">>)
    \/ \E em \in Emitters : ClearEvents(em)

SpecCycle == Init /\ [][NextCycle]_vars

\* C37 as stated: for every configuration of pipes an emit(E, x) ends after
\* finitely many listener runs: the calls of emit and of listeners never nest
\* without end (in the build: until the call stack is used up and a
\* RangeError is raised to the caller).
C37_EmitTerminatesWithPipeCycle ==
    [][Called("emit") => last'.err # "RangeError"]_vars

====
